---- MODULE Spec2Model ----
(***************************************************************************)
(* The GLiNER2 NER service of rand/pedantic_raven: the lazily loaded       *)
(* GLiNERModel wrapper (services/gliner/model.py) and the FastAPI          *)
(* handlers in front of it (services/gliner/main.py).                      *)
(*                                                                         *)
(* Two specifications share the state:                                     *)
(*   SvcSpec     the service: the startup warmup and the HTTP handlers.    *)
(*               The handlers are `async def` with no await inside, so     *)
(*               each runs to completion on the event loop: one action     *)
(*               per handler.                                              *)
(*   ThreadSpec  the GLiNERModel class called from concurrent threads,     *)
(*               one action per statement that reads or writes the         *)
(*               handle, so that calls interleave inside load().           *)
(*                                                                         *)
(* Strings produced by f-strings are sequences of tokens; a threshold is   *)
(* an integer number of tenths (3 is 0.3).                                 *)
(***************************************************************************)
EXTENDS Integers, Sequences, FiniteSets, TLC

VARIABLES
    handles,       \* the GLiNERModel instances ever created, in creation order
    global_model,  \* model._global_model: None or an index into handles
    constructed,   \* how many times GLiNER.from_pretrained returned a model
    completed,     \* how many load() calls ran their try block to its end
    failures,      \* how many load() calls raised (saturating at MaxFailures)
    got,           \* the instances get_model() has returned so far
    phase,         \* "startup" until the first service operation, then "serving"
    resp,          \* SvcSpec: the last response of the service
    obs,           \* SvcSpec: what the last operation did inside the handle
    pc,            \* ThreadSpec: each thread's position (a line of model.py)
    call,          \* ThreadSpec: the method each thread was called on
    after,         \* ThreadSpec: the call began after some load() had completed
    ret            \* ThreadSpec: how each thread's last call ended

vars == <<handles, global_model, constructed, completed, failures, got, phase,
          resp, obs, pc, call, after, ret>>

svcVars == <<resp, obs>>
threadVars == <<pc, call, after, ret>>

\* ------------------------------------------------------------------ bounds

NThreads == 2
MaxFailures == 2

Threads == 1..NThreads

\* ------------------------------------------------------------ environment

\* Python's None, for the two references the code initialises to None.
None == 0

\* What the import at model.py:27 and from_pretrained at model.py:31 can do:
\* succeed, raise ImportError, or raise another exception (named by its text).
PretrainedErrors == {"connection refused", "out of memory"}
ImportOutcomes == {"ok", "ImportError"}
PretrainedOutcomes == {"ok"} \cup PretrainedErrors
LoadOutcomes == ImportOutcomes \cup PretrainedOutcomes

\* What self._model.predict_entities can do: raise, or return entities, one
\* of which may lack a key the conversion reads.
Entity1 == [text |-> "Acme", label |-> "org", start |-> 0, end |-> 4, score |-> 9]
BadEntity == [text |-> "Acme", label |-> "org", start |-> 0, end |-> 4]
PredictOutcomes ==
    { [raises |-> <<>>, entities |-> <<>>],
      [raises |-> <<>>, entities |-> <<Entity1>>],
      [raises |-> <<>>, entities |-> <<Entity1, BadEntity>>],
      [raises |-> <<"CUDA error">>, entities |-> <<>>] }

\* Request bodies of POST /extract.
Texts == { <<>>, <<"A", "c", "m", "e">> }
EntityTypeLists == { <<>>, <<"org">>, <<"person", "org">> }
Thresholds == { -1, 0, 3, 10, 15 }
Requests == [text : Texts, entity_types : EntityTypeLists, threshold : Thresholds]

\* ------------------------------------------------------------ GLiNERModel

DefaultModelName == "fastino/gliner2-large-v1"

\* GLiNERModel.__init__
GLiNERModel(model_name) ==
    [model_name |-> model_name, model |-> None, loaded |-> FALSE]

\* A faulty variant of already_loaded: load() without its guard.
guard_missing(h) == FALSE

\* load(), line 22: the guard that makes load() return at once
already_loaded(h) == h.loaded

\* A faulty variant of store_model: the model is bound to a local, not to self._model.
store_model_to_local(h, m) == h

\* load(), line 31: self._model = GLiNER.from_pretrained(...)
store_model(h, m) == [h EXCEPT !.model = m]

\* load(), line 32: self._loaded = True
mark_loaded(h) == [h EXCEPT !.loaded = TRUE]

\* A faulty variant of load_failed: the failure is cached, the handle counts as loaded.
load_failed_sticky(h) == [h EXCEPT !.loaded = TRUE]

\* A faulty variant of load_failed: a failure clears the handle.
load_failed_resets(h) == [h EXCEPT !.loaded = FALSE, !.model = None]

\* load(), lines 35-40: the except branches write nothing to the handle
load_failed(h) == h

\* load(), line 37: RuntimeError for an ImportError (the cause's text is fixed)
ImportErrorMsg == <<"gliner2 package not installed. Run: pip install gliner2">>

\* load(), line 40: RuntimeError(f"Failed to load GLiNER2 model: {e}")
LoadErrorMsg(e) == <<"Failed to load GLiNER2 model: ", e>>

\* The message load() raises when the import or from_pretrained ends `out`.
load_error(out) ==
    IF out = "ImportError" THEN ImportErrorMsg ELSE LoadErrorMsg(out)

\* load() run to completion: `out` is what the import and from_pretrained do,
\* `fresh` the object from_pretrained would return.  raised = <<>>: returned.
load(h, out, fresh) ==
    IF already_loaded(h)
    THEN [h |-> h, raised |-> <<>>, tried |-> FALSE, built |-> 0, done |-> 0]
    ELSE IF out = "ok"
         THEN [h |-> mark_loaded(store_model(h, fresh)), raised |-> <<>>,
               tried |-> TRUE, built |-> 1, done |-> 1]
         ELSE [h |-> load_failed(h), raised |-> load_error(out),
               tried |-> TRUE, built |-> 0, done |-> 0]

\* extract_entities(), lines 69-75 read these keys of each entity, in order
EntityKeys == <<"text", "label", "start", "end", "score">>

first_missing(e) ==
    LET miss == {i \in 1..Len(EntityKeys) : EntityKeys[i] \notin DOMAIN e}
    IN IF miss = {} THEN 0 ELSE CHOOSE i \in miss : \A j \in miss : i <= j

\* extract_entities(), lines 66-78: the conversion loop; a missing key
\* raises KeyError, whose str is the quoted key
standard_format(entities) ==
    LET bad == {i \in 1..Len(entities) : first_missing(entities[i]) # 0}
    IN IF bad = {}
       THEN [raised |-> <<>>,
             results |-> [i \in 1..Len(entities) |->
                            [text |-> entities[i].text, label |-> entities[i].label,
                             start |-> entities[i].start, end |-> entities[i].end,
                             score |-> entities[i].score]]]
       ELSE LET i == CHOOSE b \in bad : \A c \in bad : b <= c
            IN [raised |-> <<"'", EntityKeys[first_missing(entities[i])], "'">>,
                results |-> <<>>]

\* extract_entities(), lines 62-82: the try block; every exception is re-raised
predict(h, pred) ==
    IF h.model = None
    THEN [raised |-> <<"'NoneType' object has no attribute 'predict_entities'">>,
          results |-> <<>>]
    ELSE IF pred.raises # <<>>
         THEN [raised |-> pred.raises, results |-> <<>>]
         ELSE standard_format(pred.entities)

\* GLiNERModel.extract_entities run to completion
GLiNERModel_extract_entities(h, out, pred, fresh) ==
    LET l == IF ~h.loaded THEN load(h, out, fresh)
             ELSE [h |-> h, raised |-> <<>>, tried |-> FALSE, built |-> 0, done |-> 0]
        p == predict(l.h, pred)
    IN IF l.raised # <<>>
       THEN [h |-> l.h, raised |-> l.raised, results |-> <<>>, tried |-> l.tried,
             built |-> l.built, done |-> l.done, loadRaised |-> TRUE,
             predicted |-> FALSE]
       ELSE [h |-> l.h, raised |-> p.raised, results |-> p.results, tried |-> l.tried,
             built |-> l.built, done |-> l.done, loadRaised |-> FALSE,
             predicted |-> TRUE]

\* A faulty variant of is_loaded: the readiness query loads the model.
is_loaded_forcing_load(h) == [h |-> mark_loaded(store_model(h, 1)), ret |-> TRUE]

\* GLiNERModel.is_loaded: the handle afterwards and the value returned
is_loaded(h) == [h |-> h, ret |-> h.loaded]

\* A faulty variant of GLiNERModel_model_info: the name is reported only once loaded.
model_info_when_loaded(h) ==
    [h |-> h,
     ret |-> [model_name |-> IF h.loaded THEN h.model_name ELSE "",
              loaded |-> h.loaded, model_type |-> "GLiNER2",
              parameters |-> "340M", license |-> "Apache 2.0"]]

\* GLiNERModel.model_info: the handle afterwards and the dict returned
GLiNERModel_model_info(h) ==
    [h |-> h,
     ret |-> [model_name |-> h.model_name, loaded |-> h.loaded,
              model_type |-> "GLiNER2", parameters |-> "340M",
              license |-> "Apache 2.0"]]

\* A faulty variant of get_model: no check of the global, a new instance on every call.
get_model_always_new(hs, g) ==
    [handles |-> Append(hs, GLiNERModel(DefaultModelName)), g |-> Len(hs) + 1]

\* get_model(): the instances and the global afterwards; the global is returned
get_model(hs, g) ==
    IF g = None
    THEN [handles |-> Append(hs, GLiNERModel(DefaultModelName)), g |-> Len(hs) + 1]
    ELSE [handles |-> hs, g |-> g]

\* ------------------------------------------------------------------ main.py

\* ExtractRequest: the Field constraints FastAPI checks before the handler runs
ThresholdGe == 0
ThresholdLe == 10
DefaultThreshold == 3

\* A faulty variant of ExtractRequest_valid: text without min_length.
ExtractRequest_no_min_length(req) ==
    /\ Len(req.entity_types) >= 1
    /\ req.threshold >= ThresholdGe
    /\ req.threshold <= ThresholdLe

ExtractRequest_valid(req) ==
    /\ Len(req.text) >= 1
    /\ Len(req.entity_types) >= 1
    /\ req.threshold >= ThresholdGe
    /\ req.threshold <= ThresholdLe

\* A faulty variant of http_500_detail: a fixed detail, the exception's text dropped.
http_500_generic(msg) == <<"Extraction failed">>

\* extract_entities handler, line 171: detail=f"Extraction failed: {str(e)}"
http_500_detail(msg) == <<"Extraction failed: ">> \o msg

\* extract_entities handler, lines 163-167: the ExtractResponse
ExtractResponse(req, entities) ==
    [entities |-> entities, entity_count |-> Len(entities),
     text_length |-> Len(req.text)]

\* extract_entities handler, lines 153-171: the try/except around the model call
extract_response(req, r) ==
    IF r.raised # <<>>
    THEN [status |-> 500, body |-> <<>>, detail |-> http_500_detail(r.raised)]
    ELSE [status |-> 200, body |-> ExtractResponse(req, r.results), detail |-> <<>>]

NoReq == [text |-> <<>>, entity_types |-> <<>>, threshold |-> DefaultThreshold]
NoObs == [tried |-> FALSE, out |-> "n/a", raised |-> <<>>, pred |-> <<>>,
          wasLoaded |-> FALSE, loadRaised |-> FALSE]
NoResp == [op |-> "none", status |-> 0, req |-> NoReq, body |-> <<>>, detail |-> <<>>]

Bump(n) == IF n < MaxFailures THEN n + 1 ELSE n

\* The handle the global refers to, or a never-initialised one when it is None.
Handle == IF global_model = None THEN GLiNERModel(DefaultModelName)
          ELSE handles[global_model]

\* --------------------------------------------------------- SvcSpec actions

\* What an operation did inside the handle (history, read by the properties).
Observed(wasLoaded, r, out, pred) ==
    [tried |-> r.tried, out |-> IF r.tried THEN out ELSE "n/a",
     raised |-> r.raised, pred |-> IF r.predicted THEN <<pred>> ELSE <<>>,
     wasLoaded |-> wasLoaded, loadRaised |-> r.loadRaised]

\* lifespan(), lines 78-89: the warmup; it runs once, before any request, and
\* swallows the exception of a failed load()
lifespan ==
    /\ phase = "startup"
    /\ \E out \in LoadOutcomes :
         LET gm == get_model(handles, global_model)
             h0 == gm.handles[gm.g]
             r == load(h0, out, constructed + 1)
         IN /\ handles' = [gm.handles EXCEPT ![gm.g] = r.h]
            /\ global_model' = gm.g
            /\ got' = got \cup {gm.g}
            /\ constructed' = constructed + r.built
            /\ completed' = completed + r.done
            /\ failures' = IF r.raised # <<>> THEN Bump(failures) ELSE failures
            /\ resp' = [NoResp EXCEPT !.op = "startup"]
            /\ obs' = [tried |-> r.tried, out |-> IF r.tried THEN out ELSE "n/a",
                       raised |-> r.raised, pred |-> <<>>,
                       wasLoaded |-> h0.loaded, loadRaised |-> r.raised # <<>>]
    /\ phase' = "serving"
    /\ UNCHANGED threadVars

\* health_check(), lines 119-124
health_check ==
    LET gm == get_model(handles, global_model)
        h0 == gm.handles[gm.g]
        r == is_loaded(h0)
    IN /\ handles' = [gm.handles EXCEPT ![gm.g] = r.h]
       /\ global_model' = gm.g
       /\ got' = got \cup {gm.g}
       /\ resp' = [NoResp EXCEPT !.op = "health", !.status = 200,
                     !.body = [status |-> "healthy", model_loaded |-> r.ret,
                               model_name |-> r.h.model_name]]
       /\ obs' = [NoObs EXCEPT !.wasLoaded = h0.loaded]
       /\ phase' = "serving"
       /\ UNCHANGED <<constructed, completed, failures>>
       /\ UNCHANGED threadVars

\* model_info() of main.py, lines 134-136
model_info ==
    LET gm == get_model(handles, global_model)
        h0 == gm.handles[gm.g]
        r == GLiNERModel_model_info(h0)
    IN /\ handles' = [gm.handles EXCEPT ![gm.g] = r.h]
       /\ global_model' = gm.g
       /\ got' = got \cup {gm.g}
       /\ resp' = [NoResp EXCEPT !.op = "model_info", !.status = 200, !.body = r.ret]
       /\ obs' = [NoObs EXCEPT !.wasLoaded = h0.loaded]
       /\ phase' = "serving"
       /\ UNCHANGED <<constructed, completed, failures>>
       /\ UNCHANGED threadVars

\* extract_entities() of main.py, lines 140-171.  FastAPI validates the body
\* against ExtractRequest first and answers 422 without calling the handler.
extract_entities ==
    /\ \E req \in Requests, out \in LoadOutcomes, pred \in PredictOutcomes :
         IF ~ExtractRequest_valid(req)
         THEN /\ resp' = [NoResp EXCEPT !.op = "extract", !.status = 422, !.req = req]
              /\ obs' = [NoObs EXCEPT !.wasLoaded = Handle.loaded]
              /\ UNCHANGED <<handles, global_model, got, constructed, completed,
                             failures>>
         ELSE LET gm == get_model(handles, global_model)
                  h0 == gm.handles[gm.g]
                  r == GLiNERModel_extract_entities(h0, out, pred, constructed + 1)
                  a == extract_response(req, r)
              IN /\ handles' = [gm.handles EXCEPT ![gm.g] = r.h]
                 /\ global_model' = gm.g
                 /\ got' = got \cup {gm.g}
                 /\ constructed' = constructed + r.built
                 /\ completed' = completed + r.done
                 /\ failures' = IF r.loadRaised THEN Bump(failures) ELSE failures
                 /\ resp' = [op |-> "extract", status |-> a.status, req |-> req,
                             body |-> a.body, detail |-> a.detail]
                 /\ obs' = Observed(h0.loaded, r, out, pred)
    /\ phase' = "serving"
    /\ UNCHANGED threadVars

SvcInit ==
    /\ handles = <<>>
    /\ global_model = None
    /\ constructed = 0
    /\ completed = 0
    /\ failures = 0
    /\ got = {}
    /\ phase = "startup"
    /\ resp = NoResp
    /\ obs = NoObs
    /\ pc = [t \in Threads |-> "idle"]
    /\ call = [t \in Threads |-> "none"]
    /\ after = [t \in Threads |-> FALSE]
    /\ ret = [t \in Threads |-> [kind |-> "none", raised |-> <<>>, val |-> <<>>]]

SvcNext == lifespan \/ health_check \/ model_info \/ extract_entities

SvcSpec == SvcInit /\ [][SvcNext]_vars

\* ------------------------------------------------------ ThreadSpec actions

Returned(v) == [kind |-> "returned", raised |-> <<>>, val |-> v]
Raised(msg) == [kind |-> "raised", raised |-> msg, val |-> <<>>]
Running == [kind |-> "running", raised |-> <<>>, val |-> <<>>]

\* Where a thread goes when load() returns: back to its caller, which is
\* extract_entities at line 62, or out of the call.
load_returns(t) ==
    IF call[t] = "extract_entities"
    THEN /\ pc' = [pc EXCEPT ![t] = "L64"]
         /\ ret' = ret
    ELSE /\ pc' = [pc EXCEPT ![t] = "idle"]
         /\ ret' = [ret EXCEPT ![t] = Returned(<<>>)]

\* An exception leaves load(), and extract_entities with it (the call at
\* line 60 is outside the try block).
load_raises(t, msg) ==
    /\ pc' = [pc EXCEPT ![t] = "idle"]
    /\ ret' = [ret EXCEPT ![t] = Raised(msg)]
    /\ failures' = Bump(failures)

\* a thread calls model.load()
call_load(t) ==
    /\ pc[t] = "idle"
    /\ pc' = [pc EXCEPT ![t] = "L22"]
    /\ call' = [call EXCEPT ![t] = "load"]
    /\ after' = [after EXCEPT ![t] = completed > 0]
    /\ ret' = [ret EXCEPT ![t] = Running]
    /\ UNCHANGED <<handles, global_model, constructed, completed, failures, got,
                   phase, resp, obs>>

\* a thread calls model.extract_entities(...)
call_extract_entities(t) ==
    /\ pc[t] = "idle"
    /\ pc' = [pc EXCEPT ![t] = "L59"]
    /\ call' = [call EXCEPT ![t] = "extract_entities"]
    /\ after' = [after EXCEPT ![t] = completed > 0]
    /\ ret' = [ret EXCEPT ![t] = Running]
    /\ UNCHANGED <<handles, global_model, constructed, completed, failures, got,
                   phase, resp, obs>>

\* a thread calls model.is_loaded(), lines 84-86
call_is_loaded(t) ==
    /\ pc[t] = "idle"
    /\ LET r == is_loaded(handles[global_model])
       IN /\ handles' = [handles EXCEPT ![global_model] = r.h]
          /\ ret' = [ret EXCEPT ![t] = Returned(r.ret)]
    /\ call' = [call EXCEPT ![t] = "is_loaded"]
    /\ after' = [after EXCEPT ![t] = completed > 0]
    /\ UNCHANGED <<pc, global_model, constructed, completed, failures, got,
                   phase, resp, obs>>

\* a thread calls model.model_info(), lines 88-96
call_model_info(t) ==
    /\ pc[t] = "idle"
    /\ LET r == GLiNERModel_model_info(handles[global_model])
       IN /\ handles' = [handles EXCEPT ![global_model] = r.h]
          /\ ret' = [ret EXCEPT ![t] = Returned(r.ret)]
    /\ call' = [call EXCEPT ![t] = "model_info"]
    /\ after' = [after EXCEPT ![t] = completed > 0]
    /\ UNCHANGED <<pc, global_model, constructed, completed, failures, got,
                   phase, resp, obs>>

\* load(), lines 22-23: if self._loaded: return
load_L22(t) ==
    /\ pc[t] = "L22"
    /\ IF already_loaded(handles[global_model])
       THEN load_returns(t)
       ELSE /\ pc' = [pc EXCEPT ![t] = "L27"]
            /\ ret' = ret
    /\ UNCHANGED <<handles, global_model, constructed, completed, failures, got,
                   phase, resp, obs, call, after>>

\* load(), line 27: from gliner2 import GLiNER (ImportError: lines 35-37)
load_L27(t) ==
    /\ pc[t] = "L27"
    /\ \E out \in ImportOutcomes :
         IF out = "ok"
         THEN /\ pc' = [pc EXCEPT ![t] = "L31"]
              /\ UNCHANGED <<handles, failures, ret>>
         ELSE /\ handles' = [handles EXCEPT ![global_model] = load_failed(@)]
              /\ load_raises(t, load_error(out))
    /\ UNCHANGED <<global_model, constructed, completed, got, phase, resp, obs,
                   call, after>>

\* load(), line 31: self._model = GLiNER.from_pretrained(...) (lines 38-40 when
\* it raises)
load_L31(t) ==
    /\ pc[t] = "L31"
    /\ \E out \in PretrainedOutcomes :
         IF out = "ok"
         THEN /\ handles' = [handles EXCEPT
                               ![global_model] = store_model(@, constructed + 1)]
              /\ constructed' = constructed + 1
              /\ pc' = [pc EXCEPT ![t] = "L32"]
              /\ UNCHANGED <<failures, ret>>
         ELSE /\ handles' = [handles EXCEPT ![global_model] = load_failed(@)]
              /\ load_raises(t, load_error(out))
              /\ UNCHANGED constructed
    /\ UNCHANGED <<global_model, completed, got, phase, resp, obs, call, after>>

\* load(), lines 32-33: self._loaded = True, and the return
load_L32(t) ==
    /\ pc[t] = "L32"
    /\ handles' = [handles EXCEPT ![global_model] = mark_loaded(@)]
    /\ completed' = completed + 1
    /\ load_returns(t)
    /\ UNCHANGED <<global_model, constructed, failures, got, phase, resp, obs,
                   call, after>>

\* extract_entities(), lines 59-60: if not self._loaded: self.load()
extract_L59(t) ==
    /\ pc[t] = "L59"
    /\ pc' = [pc EXCEPT ![t] = IF ~handles[global_model].loaded THEN "L22" ELSE "L64"]
    /\ UNCHANGED <<handles, global_model, constructed, completed, failures, got,
                   phase, resp, obs, call, after, ret>>

\* extract_entities(), lines 62-82: the try block
extract_L64(t) ==
    /\ pc[t] = "L64"
    /\ \E pred \in PredictOutcomes :
         LET r == predict(handles[global_model], pred)
         IN ret' = [ret EXCEPT ![t] = IF r.raised # <<>> THEN Raised(r.raised)
                                       ELSE Returned(r.results)]
    /\ pc' = [pc EXCEPT ![t] = "idle"]
    /\ UNCHANGED <<handles, global_model, constructed, completed, failures, got,
                   phase, resp, obs, call, after>>

\* One shared GLiNERModel, as get_model() leaves it after its first call.
ThreadInit ==
    /\ handles = get_model(<<>>, None).handles
    /\ global_model = get_model(<<>>, None).g
    /\ constructed = 0
    /\ completed = 0
    /\ failures = 0
    /\ got = {get_model(<<>>, None).g}
    /\ phase = "serving"
    /\ resp = NoResp
    /\ obs = NoObs
    /\ pc = [t \in Threads |-> "idle"]
    /\ call = [t \in Threads |-> "none"]
    /\ after = [t \in Threads |-> FALSE]
    /\ ret = [t \in Threads |-> [kind |-> "none", raised |-> <<>>, val |-> <<>>]]

ThreadNext ==
    \E t \in Threads :
        \/ call_load(t)
        \/ call_extract_entities(t)
        \/ call_is_loaded(t)
        \/ call_model_info(t)
        \/ load_L22(t)
        \/ load_L27(t)
        \/ load_L31(t)
        \/ load_L32(t)
        \/ extract_L59(t)
        \/ extract_L64(t)

ThreadSpec == ThreadInit /\ [][ThreadNext]_vars

\* ------------------------------------------------------------- properties

Range(f) == {f[i] : i \in DOMAIN f}

\* How the text of an error names what went wrong in load(): the fixed
\* "package not installed" sentence for an ImportError, the exception's own
\* text otherwise.
CauseName(out) == IF out = "ImportError" THEN ImportErrorMsg[1] ELSE out

\* msg ends with the whole of inner.
EndsWith(msg, inner) ==
    /\ Len(msg) >= Len(inner)
    /\ SubSeq(msg, Len(msg) - Len(inner) + 1, Len(msg)) = inner

\* C1: in every interleaving of load() and extract_entities() calls in which
\* no initialization fails, GLiNER.from_pretrained returns a model at most
\* once, and exactly once when some load() has completed.
C1_ConstructedOnce ==
    failures = 0 => /\ constructed <= 1
                    /\ (completed > 0 => constructed = 1)

\* C2: in every state, every GLiNERModel's readiness flag is true if and only
\* if its model reference is present and a load() has completed without error.
C2_ReadyIffModelAndLoadCompleted ==
    \A i \in 1..Len(handles) :
        handles[i].loaded <=> (handles[i].model # None /\ completed > 0)

\* C2 witness: the handle is ready after an earlier load() failed.
C2_Witness ==
    /\ Handle.loaded
    /\ Handle.model # None
    /\ failures > 0

\* C3: a failed load() raises an error that names its cause and leaves the
\* handle uninitialized; an operation that needs the model and finds the
\* handle uninitialized always attempts initialization (no failure is cached),
\* and an attempt whose dependency works leaves the handle ready.
C3_FailedLoadRetried ==
    /\ obs.loadRaised =>
          /\ obs.raised # <<>>
          /\ CauseName(obs.out) \in Range(obs.raised)
          /\ ~Handle.loaded
          /\ Handle.model = None
    /\ (resp.op = "startup" \/ (resp.op = "extract" /\ resp.status # 422)) =>
          (obs.tried <=> ~obs.wasLoaded)
    /\ (obs.tried /\ obs.out = "ok") =>
          /\ Handle.loaded
          /\ Handle.model # None

\* C3 witness: after failed attempts, among them a failed warmup or request,
\* a request found the dependency working and made the handle ready.
C3_Witness ==
    /\ failures > 0
    /\ resp.op = "extract"
    /\ obs.tried
    /\ obs.out = "ok"
    /\ Handle.loaded

\* C4: is_loaded() is false in every state before the first load() completes
\* and true in every state after it, and no step of any operation turns it
\* from true to false.
C4_ReadyNeverReverts ==
    /\ [](Handle.loaded <=> completed > 0)
    /\ [][Handle.loaded => Handle.loaded']_vars

\* C4 witness: the handle is ready and a call that began after it became
\* ready has raised.
C4_Witness ==
    \E t \in Threads :
        /\ Handle.loaded
        /\ after[t]
        /\ call[t] = "extract_entities"
        /\ ret[t].kind = "raised"

\* C5: a load() or extract_entities() call that begins after a load() has
\* completed never enters the construction (lines 27-32), and none of its
\* steps changes the model reference, the readiness flag or the count of
\* constructions.
C5_LoadIdempotent ==
    [][\A t \in Threads :
          (after[t] /\ pc[t] # "idle" /\ pc'[t] # pc[t]) =>
             /\ handles' = handles
             /\ constructed' = constructed
             /\ pc'[t] \notin {"L27", "L31", "L32"}]_vars

\* C5 witness: a load() that began after a completed load() has returned.
C5_Witness ==
    \E t \in Threads :
        /\ after[t]
        /\ call[t] = "load"
        /\ pc[t] = "idle"
        /\ ret[t].kind = "returned"

\* C6: a step of GET /health or GET /model_info leaves the handle's model
\* reference and readiness flag as they were, and constructs nothing.
C6_QueriesDoNotInitialize ==
    [][resp'.op \in {"health", "model_info"} =>
          /\ Handle' = Handle
          /\ constructed' = constructed
          /\ completed' = completed]_vars

\* C6 witness: /health has answered "not loaded" and the handle is still
\* uninitialized.
C6_Witness ==
    /\ resp.op = "health"
    /\ resp.body.model_loaded = FALSE
    /\ global_model # None
    /\ ~Handle.loaded
    /\ Handle.model = None

\* C7: a validated POST /extract answers 200 or 500; whenever initialization
\* or predict_entities raised it answers 500 with a detail that ends with the
\* exception's text (which names the cause of a failed load); and whenever
\* nothing raised it answers 200 with the entities, whatever failed before.
C7_ExtractFailuresAnswer500 ==
    (resp.op = "extract" /\ resp.status # 422) =>
        /\ resp.status \in {200, 500}
        /\ obs.raised # <<>> =>
              /\ resp.status = 500
              /\ EndsWith(resp.detail, obs.raised)
              /\ Len(resp.detail) > Len(obs.raised)
              /\ obs.loadRaised => CauseName(obs.out) \in Range(resp.detail)
              /\ (obs.pred # <<>> /\ obs.pred[1].raises # <<>>) =>
                    EndsWith(resp.detail, obs.pred[1].raises)
        /\ obs.raised = <<>> =>
              /\ resp.status = 200
              /\ resp.body.entity_count = Len(obs.pred[1].entities)
        /\ (obs.pred # <<>> /\ obs.pred[1].raises = <<>>
              /\ \A i \in DOMAIN obs.pred[1].entities :
                    first_missing(obs.pred[1].entities[i]) = 0) =>
              resp.status = 200

\* C7 witness: /extract succeeds after as many failed initializations as the
\* model counts, at least one of which was answered 500.
C7_Witness ==
    /\ resp.op = "extract"
    /\ resp.status = 200
    /\ failures >= 2

\* The request shapes the specification lists as invalid.
Rejectable(req) ==
    \/ Len(req.text) = 0
    \/ Len(req.entity_types) = 0
    \/ req.threshold < 0
    \/ req.threshold > 10

\* C8: a POST /extract body with an empty text, an empty entity_types list or
\* a threshold outside [0.0, 1.0] is answered 422, and the step that answers
\* it creates no instance and leaves the handle and the counts unchanged.
C8_InvalidRequestsRejected ==
    /\ []((resp.op = "extract" /\ Rejectable(resp.req)) => resp.status = 422)
    /\ [][(resp'.op = "extract" /\ Rejectable(resp'.req)) =>
             UNCHANGED <<handles, global_model, got, constructed, completed,
                         failures>>]_vars

\* C8 witness: a request with threshold 1.5 was rejected while no handle
\* exists yet.
C8_Witness ==
    /\ resp.op = "extract"
    /\ resp.status = 422
    /\ resp.req.threshold = 15
    /\ Len(resp.req.text) > 0
    /\ Len(resp.req.entity_types) > 0
    /\ global_model = None

\* C9: at most one GLiNERModel is ever created, every get_model() call of the
\* warmup and the handlers returns that one instance, and /health reports the
\* readiness that any earlier caller established.
C9_Singleton ==
    /\ Len(handles) <= 1
    /\ Cardinality(got) <= 1
    /\ global_model # None => (got = {global_model} /\ Len(handles) = 1)
    /\ resp.op = "health" => resp.body.model_loaded = (completed > 0)

\* C9 witness: /health reports a model loaded by another caller.
C9_Witness ==
    /\ resp.op = "health"
    /\ resp.body.model_loaded
    /\ Cardinality(got) = 1
    /\ Len(handles) = 1

\* C10: every answer of GET /model_info carries the same model_name,
\* model_type, parameters and license; its loaded field is the readiness flag.
C10_StaticModelInfo ==
    resp.op = "model_info" =>
        /\ resp.body.model_name = "fastino/gliner2-large-v1"
        /\ resp.body.model_type = "GLiNER2"
        /\ resp.body.parameters = "340M"
        /\ resp.body.license = "Apache 2.0"
        /\ resp.body.loaded = Handle.loaded

\* C10 witness: /model_info answered for a handle left uninitialized by a
\* failed initialization.
C10_Witness ==
    /\ resp.op = "model_info"
    /\ resp.body.loaded = FALSE
    /\ failures > 0

====
